---- MODULE Spec2Model ----
(***************************************************************************)
(* The reconciliation engine of postman-sync: CollectionMerger.merge and   *)
(* the SyncEngine.run_sync workflow around it.                             *)
(*                                                                         *)
(* Encoding of the Python values:                                          *)
(*  - a path string is the sequence its split('/') yields, so             *)
(*    "/api/users/" is <<"", "api", "users", "">>;                         *)
(*  - a description string is a sequence of tokens: user text, white      *)
(*    space, the "_Last synced: <iso>_" marker, the                        *)
(*    "**DEPRECATED** (as of <iso>)" marker;                               *)
(*  - a dict is a record, `"k" in d` is "k" \in DOMAIN d; a list is a      *)
(*    sequence; Optional[x] is a sequence of length 0 or 1;                *)
(*  - a datetime is a whole number of days;                                *)
(*  - the identity of an item's dict object (Python's id()) is the field   *)
(*    oid, which no code reads: a new dict gets a number no item of the    *)
(*    Document has.                                                        *)
(***************************************************************************)
EXTENDS Integers, Sequences, FiniteSets, TLC

VARIABLES
    collection,        \* the Document the caller owns (merge mutates it in place)
    now,               \* datetime.utcnow(), in days
    deprecation_days,  \* CollectionMerger.deprecation_days
    status,            \* "none" | "ok" | "error": how the last merge ended
    result,            \* SyncResult of the last merge that returned
    routes,            \* the route list the last merge was given
    merges,            \* the number of merge calls so far
    config,            \* SyncEngine.config
    file,              \* the collection file: <<>> when missing, else <<Document>>
    remote,            \* the collection the Postman API holds, <<>> before any upload
    staged,            \* whether the collection file is staged in git
    ops,               \* what the last run_sync did, in order
    raised             \* whether the last run_sync raised SyncError

merger_vars == <<collection, now, deprecation_days, status, result, routes, merges>>
engine_vars == <<config, file, remote, staged, ops, raised>>
vars == <<merger_vars, engine_vars>>

----------------------------------------------------------------------------
(* Bounds of the model *)

MaxTime == 3
MaxDays == 2
MaxMerges == 2
MaxRuns == 2

----------------------------------------------------------------------------
(* Description strings *)

Txt(s) == [k |-> "txt", s |-> s, n |-> 0]
Space == [k |-> "ws", s |-> " ", n |-> 0]
NL2 == [k |-> "ws", s |-> "\n\n", n |-> 0]
\* "_Last synced: " + isoformat(t) + "_"
SyncTok(t) == [k |-> "sync", s |-> "iso", n |-> t]
\* "**DEPRECATED** (as of " + isoformat(t) + ")"
DepTok(t) == [k |-> "dep", s |-> "iso", n |-> t]
\* a deprecation marker whose date matches the pattern but is no ISO date
DepBad == [k |-> "dep", s |-> "bad", n |-> 0]
\* a description that is not a string (JSON null)
NullDesc == <<[k |-> "null", s |-> "", n |-> 0]>>

IsStr(desc) == desc # NullDesc

\* "_Last synced:" in desc
HasSync(desc) == \E i \in 1..Len(desc) : desc[i].k = "sync"

\* mutant: the marker is never seen
HasDep_never(desc) == FALSE

\* "**DEPRECATED**" in desc
HasDep(desc) == \E i \in 1..Len(desc) : desc[i].k = "dep"

FirstOf(desc, kind) ==
    CHOOSE i \in 1..Len(desc) :
        /\ desc[i].k = kind
        /\ \A j \in 1..(i - 1) : desc[j].k # kind

\* desc.split("_Last synced:")[0]
BeforeSync(desc) == SubSeq(desc, 1, FirstOf(desc, "sync") - 1)

RECURSIVE rstrip(_)
rstrip(desc) ==
    IF desc = <<>> THEN <<>>
    ELSE IF desc[Len(desc)].k = "ws" THEN rstrip(SubSeq(desc, 1, Len(desc) - 1))
    ELSE desc

sync_note(t) == <<NL2, SyncTok(t)>>

----------------------------------------------------------------------------
(* models.py: Route *)

NoDescription == <<>>
NoMetadata == <<>>

Metadata(file_stem, is_protected) ==
    <<[file_name |-> file_stem, is_protected |-> is_protected]>>

Capitalize(word) ==
    CASE word = "auth" -> "Auth"
      [] word = "users" -> "Users"
      [] word = "health" -> "Health"
      [] word = "user" -> "User"
      [] word = "management" -> "Management"
      [] word = "token" -> "Token"
      [] word = "verify" -> "Verify"
      [] word = "v1" -> "V1"
      [] word = "keys" -> "Keys"
      [] word = ":id" -> "{id}"
      [] OTHER -> word

\* str.lower() of a path segment
Lower(word) == IF word = "Token" THEN "token" ELSE word

\* mutant: the id is built from the raw path
unique_id_raw_path(route) == <<route.method, route.path>>

unique_id(route) == <<route.method, route.full_path>>

\* file_name holds the words of the file's stem ("user-management.ts" is
\* <<"user", "management">>); a name is the sequence of its words
folder_name(route) ==
    IF route.metadata = NoMetadata THEN <<"Routes">>
    ELSE LET stem == route.metadata[1].file_name
         IN [i \in 1..Len(stem) |-> Capitalize(stem[i])]

is_protected(route) ==
    route.metadata # NoMetadata /\ route.metadata[1].is_protected

SelectParts(path) == SelectSeq(path, LAMBDA p : p # "")

\* str.strip() of a name: the empty words at both ends go
RECURSIVE strip(_)
strip(words) ==
    IF words = <<>> THEN <<>>
    ELSE IF Head(words) = "" THEN strip(Tail(words))
    ELSE IF words[Len(words)] = "" THEN strip(SubSeq(words, 1, Len(words) - 1))
    ELSE words

\* mutant: the special names are not looked for
request_name_plain(route) ==
    LET path_parts == SelectSeq(route.full_path, LAMBDA p : p # "" /\ p # "api")
        method_prefix ==
            CASE route.method = "GET" -> "Get"
              [] route.method = "POST" ->
                    IF Len(path_parts) = 1 THEN "Create" ELSE "Generate"
              [] route.method \in {"PUT", "PATCH"} -> "Update"
              [] route.method = "DELETE" -> "Delete"
              [] OTHER -> route.method
        name == [i \in 1..Len(path_parts) |-> Capitalize(path_parts[i])]
    IN IF path_parts = <<>> THEN <<route.method, "Root">>
       ELSE <<method_prefix>> \o name

request_name(route) ==
    LET path_parts == SelectSeq(route.full_path, LAMBDA p : p # "" /\ p # "api")
        method_prefix ==
            CASE route.method = "GET" -> "Get"
              [] route.method = "POST" ->
                    IF Len(path_parts) = 1 THEN "Create" ELSE "Generate"
              [] route.method \in {"PUT", "PATCH"} -> "Update"
              [] route.method = "DELETE" -> "Delete"
              [] OTHER -> route.method
        name == [i \in 1..Len(path_parts) |-> Capitalize(path_parts[i])]
        \* name.replace('Verify', '').strip(): a word that is gone leaves the
        \* empty word, so that the blanks around it are both there
        replaced == [i \in 1..Len(name) |-> IF name[i] = "Verify" THEN "" ELSE name[i]]
    IN IF path_parts = <<>> THEN <<route.method, "Root">>
       ELSE IF \E i \in 1..Len(name) : name[i] = "Health" THEN <<"Health", "Check">>
       ELSE IF \E i \in 1..Len(name) : name[i] = "Verify"
       THEN <<"Verify">> \o (IF strip(replaced) = <<>> THEN <<"">> ELSE strip(replaced))
       ELSE <<method_prefix>> \o name

----------------------------------------------------------------------------
(* models.py: SyncResult *)

SyncResult ==
    [routes_added |-> <<>>, routes_updated |-> <<>>,
     routes_deprecated |-> <<>>, routes_removed |-> <<>>, errors |-> <<>>]

\* mutant: a result with errors has no changes
has_changes_unless_errors(r) ==
    /\ r.errors = <<>>
    /\ \/ Len(r.routes_added) > 0
       \/ Len(r.routes_updated) > 0
       \/ Len(r.routes_deprecated) > 0
       \/ Len(r.routes_removed) > 0

has_changes(r) ==
    \/ Len(r.routes_added) > 0
    \/ Len(r.routes_updated) > 0
    \/ Len(r.routes_deprecated) > 0
    \/ Len(r.routes_removed) > 0

----------------------------------------------------------------------------
(* utils/validators.py *)

\* values of the wrong JSON type
NotAList == <<[json |-> "object"]>>
NotADict == [json |-> "string"]

\* mutant: the name of info is not checked
validate_no_name_check(data) ==
    IF "info" \notin DOMAIN data THEN "Collection missing 'info' field"
    ELSE IF "item" \notin DOMAIN data THEN "Collection missing 'item' field"
    ELSE IF data.info = NotADict THEN "Collection 'info' must be an object"
    ELSE IF data.item = NotAList THEN "Collection 'item' must be an array"
    ELSE "ok"

validate_postman_collection(data) ==
    IF "info" \notin DOMAIN data THEN "Collection missing 'info' field"
    ELSE IF "item" \notin DOMAIN data THEN "Collection missing 'item' field"
    ELSE IF data.info = NotADict THEN "Collection 'info' must be an object"
    ELSE IF "name" \notin DOMAIN data.info THEN "Collection info missing 'name' field"
    ELSE IF data.item = NotAList THEN "Collection 'item' must be an array"
    ELSE "ok"

----------------------------------------------------------------------------
(* postman/test_generator.py *)

\* mutant: the path is searched as it is written
ContainsWord_exact(path, word) == \E i \in 1..Len(path) : path[i] = word

\* word in path.lower()
ContainsWord(path, word) == \E i \in 1..Len(path) : Lower(path[i]) = word

generate_post_tests(route) ==
    IF ContainsWord(route.path, "token")
    THEN <<"Response contains token", "Save token to collection variable">>
    ELSE <<"Resource created successfully">>

generate_get_tests(route) ==
    IF ContainsWord(route.path, "health") THEN <<"Service is healthy">> ELSE <<>>

generate_test_script(route) ==
    <<"Status code is 200">>
    \o (IF route.schema200 THEN <<"Response has correct structure">> ELSE <<>>)
    \o (IF route.method = "POST" THEN generate_post_tests(route)
        ELSE IF route.method = "GET" THEN generate_get_tests(route)
        ELSE <<>>)

generate_prerequest_auth_script == <<"Auto-generated: Add JWT authorization header">>

----------------------------------------------------------------------------
(* postman/merger.py: helpers *)

extract_path(url) ==
    IF "str" \in DOMAIN url THEN url.str
    ELSE <<"">> \o (IF url.path = <<>> THEN <<"">> ELSE url.path)

build_url(path) == [raw |-> path, path |-> SelectParts(path)]

item_id(item) == <<item.request.method, extract_path(item.request.url)>>

\* the index is a dict: its keys in insertion order, each with a reference
\* (the position of the item in the tree) to the item it maps to
InIndex(index, uid) == \E j \in 1..Len(index) : index[j].id = uid

RefOf(index, uid) == index[CHOOSE j \in 1..Len(index) : index[j].id = uid].ref

RECURSIVE GetAt(_, _)
GetAt(items, ref) ==
    IF Len(ref) = 1 THEN items[ref[1]]
    ELSE GetAt(items[ref[1]].item, Tail(ref))

RECURSIVE SetAt(_, _, _)
SetAt(items, ref, node) ==
    IF Len(ref) = 1 THEN [items EXCEPT ![ref[1]] = node]
    ELSE [items EXCEPT ![ref[1]] =
            [items[ref[1]] EXCEPT !.item = SetAt(items[ref[1]].item, Tail(ref), node)]]

\* mutant: a key that repeats maps to the last Entry that has it
RECURSIVE index_items_last(_, _, _, _)
index_items_last(items, i, prefix, index) ==
    IF i > Len(items) THEN index
    ELSE LET item == items[i]
             ref == Append(prefix, i)
             index1 ==
                 IF "request" \notin DOMAIN item THEN index
                 ELSE IF InIndex(index, item_id(item))
                 THEN [j \in 1..Len(index) |->
                          IF index[j].id = item_id(item)
                          THEN [id |-> index[j].id, ref |-> ref] ELSE index[j]]
                 ELSE Append(index, [id |-> item_id(item), ref |-> ref])
             index2 ==
                 IF "item" \in DOMAIN item
                 THEN index_items_last(item.item, 1, ref, index1)
                 ELSE index1
         IN index_items_last(items, i + 1, prefix, index2)

RECURSIVE index_items(_, _, _, _)
index_items(items, i, prefix, index) ==
    IF i > Len(items) THEN index
    ELSE LET item == items[i]
             ref == Append(prefix, i)
             index1 ==
                 IF "request" \in DOMAIN item /\ ~InIndex(index, item_id(item))
                 THEN Append(index, [id |-> item_id(item), ref |-> ref])
                 ELSE index
             index2 ==
                 IF "item" \in DOMAIN item
                 THEN index_items(item.item, 1, ref, index1)
                 ELSE index1
         IN index_items(items, i + 1, prefix, index2)

index_requests(coll) == index_items(coll.item, 1, <<>>, <<>>)

RECURSIVE organize_by_folder(_, _, _)
organize_by_folder(rts, i, folders) ==
    IF i > Len(rts) THEN folders
    ELSE LET folder == folder_name(rts[i])
         IN organize_by_folder(rts, i + 1,
                IF \E j \in 1..Len(folders) : folders[j] = folder
                THEN folders ELSE Append(folders, folder))

IsFolder(item) == "item" \in DOMAIN item

RECURSIVE append_folders(_, _, _, _)
append_folders(coll, folder_names, i, existing_folders) ==
    IF i > Len(folder_names) THEN coll
    ELSE append_folders(
            IF folder_names[i] \notin existing_folders
            THEN [coll EXCEPT !.item = Append(@, [name |-> folder_names[i], item |-> <<>>])]
            ELSE coll,
            folder_names, i + 1, existing_folders)

\* mutant: the Groups that exist are not looked at
ensure_folders_blind(coll, folder_names) ==
    append_folders(coll, folder_names, 1, {})

ensure_folders(coll, folder_names) ==
    LET existing_folders ==
            {coll.item[i].name : i \in {j \in 1..Len(coll.item) : IsFolder(coll.item[j])}}
    IN append_folders(coll, folder_names, 1, existing_folders)

\* mutant: the hook is appended without looking for one
ensure_auth_prerequest_always(request_item) ==
    LET item1 ==
            IF "event" \in DOMAIN request_item THEN request_item
            ELSE ("event" :> <<>>) @@ request_item
    IN [item1 EXCEPT !.event =
            Append(@, [listen |-> "prerequest",
                       exec |-> generate_prerequest_auth_script])]

ensure_auth_prerequest(request_item) ==
    LET item1 ==
            IF "event" \in DOMAIN request_item THEN request_item
            ELSE ("event" :> <<>>) @@ request_item
        has_prerequest ==
            \E i \in 1..Len(item1.event) : item1.event[i].listen = "prerequest"
    IN IF has_prerequest THEN item1
       ELSE [item1 EXCEPT !.event =
                Append(@, [listen |-> "prerequest",
                           exec |-> generate_prerequest_auth_script])]

\* mutant: the previous synchronization marker is not stripped
update_request_no_strip(request_item, route, t) ==
    LET item1 ==
            [request_item EXCEPT
                !.request.description = @ \o sync_note(t),
                !.request.url = build_url(route.full_path),
                !.request.method = route.method]
    IN IF is_protected(route) THEN ensure_auth_prerequest(item1) ELSE item1

\* mutant: the Entry is renamed after its route
update_request_rename(request_item, route, t) ==
    LET current_desc == request_item.request.description
        stripped ==
            IF HasSync(current_desc) THEN rstrip(BeforeSync(current_desc))
            ELSE current_desc
        base_desc ==
            IF stripped = <<>> /\ route.description # NoDescription
            THEN route.description ELSE stripped
        item1 ==
            [request_item EXCEPT
                !.name = request_name(route),
                !.request.description = base_desc \o sync_note(t),
                !.request.url = build_url(route.full_path),
                !.request.method = route.method]
    IN IF is_protected(route) THEN ensure_auth_prerequest(item1) ELSE item1

update_request(request_item, route, t) ==
    LET current_desc == request_item.request.description
        stripped ==
            IF HasSync(current_desc) THEN rstrip(BeforeSync(current_desc))
            ELSE current_desc
        base_desc ==
            IF stripped = <<>> /\ route.description # NoDescription
            THEN route.description ELSE stripped
        item1 ==
            [request_item EXCEPT
                !.request.description = base_desc \o sync_note(t),
                !.request.url = build_url(route.full_path),
                !.request.method = route.method]
    IN IF is_protected(route) THEN ensure_auth_prerequest(item1) ELSE item1

\* f"{method} {full_path}"
DefaultLine(route) ==
    <<Txt(route.method), Space>> \o [i \in 1..Len(route.full_path) |-> Txt(route.full_path[i])]

\* route.description or f"{method} {full_path}\n\n_Last synced: {now}_"
initial_description(route, t) ==
    IF route.description # NoDescription THEN route.description
    ELSE DefaultLine(route) \o sync_note(t)

RECURSIVE MaxOid(_)
MaxOid(items) ==
    IF items = <<>> THEN 0
    ELSE LET here == IF "request" \in DOMAIN items[1] THEN items[1].oid ELSE 0
             below == IF IsFolder(items[1]) THEN MaxOid(items[1].item) ELSE 0
             rest == MaxOid(Tail(items))
         IN IF here >= below /\ here >= rest THEN here
            ELSE IF below >= rest THEN below ELSE rest

new_request_item(route, t, oid) ==
    LET request_item ==
            [name |-> request_name(route), oid |-> oid,
             event |-> <<[listen |-> "test", exec |-> generate_test_script(route)]>>,
             request |-> [method |-> route.method,
                          url |-> build_url(route.full_path),
                          description |-> initial_description(route, t)],
             response |-> <<>>]
    IN IF is_protected(route) THEN ensure_auth_prerequest(request_item)
       ELSE request_item

\* mutant: the new request is put in front of the folder's items
add_request_prepend(coll, route, t) ==
    LET found == {i \in 1..Len(coll.item) :
                     coll.item[i].name = folder_name(route) /\ IsFolder(coll.item[i])}
        coll1 == IF found = {}
                 THEN [coll EXCEPT !.item =
                          Append(@, [name |-> folder_name(route), item |-> <<>>])]
                 ELSE coll
        f == IF found = {} THEN Len(coll1.item)
             ELSE CHOOSE i \in found : \A j \in found : i <= j
    IN [coll1 EXCEPT !.item[f].item =
            <<new_request_item(route, t, MaxOid(coll.item) + 1)>> \o @]

add_request(coll, route, t) ==
    LET found == {i \in 1..Len(coll.item) :
                     coll.item[i].name = folder_name(route) /\ IsFolder(coll.item[i])}
        coll1 == IF found = {}
                 THEN [coll EXCEPT !.item =
                          Append(@, [name |-> folder_name(route), item |-> <<>>])]
                 ELSE coll
        f == IF found = {} THEN Len(coll1.item)
             ELSE CHOOSE i \in found : \A j \in found : i <= j
    IN [coll1 EXCEPT !.item[f].item =
            Append(@, new_request_item(route, t, MaxOid(coll.item) + 1))]

\* the loop of merge over the routes; st is [ok, collection, result] and an
\* exception leaves the Document as mutated so far
RECURSIVE process_routes(_, _, _, _, _)
process_routes(st, rts, i, existing_requests, t) ==
    IF ~st.ok \/ i > Len(rts) THEN st
    ELSE LET route == rts[i] IN
         IF InIndex(existing_requests, unique_id(route))
         THEN LET ref == RefOf(existing_requests, unique_id(route))
                  request_item == GetAt(st.collection.item, ref)
              IN IF ~IsStr(request_item.request.description)
                 THEN [st EXCEPT !.ok = FALSE]
                 ELSE process_routes(
                        [st EXCEPT
                            !.collection.item =
                                SetAt(@, ref, update_request(request_item, route, t)),
                            !.result.routes_updated = Append(@, route)],
                        rts, i + 1, existing_requests, t)
         ELSE process_routes(
                [st EXCEPT
                    !.collection = add_request(@, route, t),
                    !.result.routes_added = Append(@, route)],
                rts, i + 1, existing_requests, t)

\* mutant: the marker is put after the description
deprecated_description_appended(desc, t) == desc \o <<NL2, DepTok(t)>>

\* f"**DEPRECATED** (as of {deprecation_date})\n\n{desc}"
deprecated_description(desc, t) == <<DepTok(t), NL2>> \o desc

RECURSIVE mark_deprecated(_, _, _, _, _)
mark_deprecated(st, existing_requests, j, current_route_ids, t) ==
    IF ~st.ok \/ j > Len(existing_requests) THEN st
    ELSE LET uid == existing_requests[j].id
             ref == existing_requests[j].ref
             request_item == GetAt(st.collection.item, ref)
             desc == request_item.request.description
         IN IF uid \in current_route_ids
            THEN mark_deprecated(st, existing_requests, j + 1, current_route_ids, t)
            ELSE IF ~IsStr(desc) THEN [st EXCEPT !.ok = FALSE]
            ELSE IF HasDep(desc)
            THEN mark_deprecated(st, existing_requests, j + 1, current_route_ids, t)
            ELSE mark_deprecated(
                    [st EXCEPT
                        !.collection.item =
                            SetAt(@, ref, [request_item EXCEPT
                                !.request.description = deprecated_description(desc, t)]),
                        !.result.routes_deprecated = Append(@, uid)],
                    existing_requests, j + 1, current_route_ids, t)

\* mutant: the date of the marker is not looked at
IsOld_any_marker(desc, cutoff) == HasDep(desc)

\* mutant: a timestamp that cannot be parsed counts as the oldest date
IsOld_unparsed(desc, cutoff) ==
    /\ HasDep(desc)
    /\ desc[FirstOf(desc, "dep")].n < cutoff

\* the description names a parsable date older than the cutoff
IsOld(desc, cutoff) ==
    /\ HasDep(desc)
    /\ LET m == desc[FirstOf(desc, "dep")]
       IN m.s = "iso" /\ m.n < cutoff

\* acc is [filtered, items, removed, ok]: the list being built, the list
\* walked (its folders are mutated in place), the ids removed so far
RECURSIVE process_items(_, _, _, _)
process_items(items, i, cutoff, acc) ==
    IF ~acc.ok \/ i > Len(items) THEN acc
    ELSE LET item == items[i] IN
         IF "request" \in DOMAIN item /\ ~IsStr(item.request.description)
         THEN [acc EXCEPT !.ok = FALSE]
         ELSE IF "request" \in DOMAIN item /\ IsOld(item.request.description, cutoff)
         THEN process_items(items, i + 1, cutoff,
                            [acc EXCEPT !.removed = Append(@, item_id(item))])
         ELSE IF IsFolder(item)
         THEN LET sub == process_items(item.item, 1, cutoff,
                            [filtered |-> <<>>, items |-> item.item,
                             removed |-> acc.removed, ok |-> TRUE])
                  item1 == [item EXCEPT !.item = IF sub.ok THEN sub.filtered ELSE sub.items]
              IN process_items(items, i + 1, cutoff,
                    [filtered |-> Append(acc.filtered, item1),
                     items |-> [acc.items EXCEPT ![i] = item1],
                     removed |-> sub.removed,
                     ok |-> sub.ok])
         ELSE process_items(items, i + 1, cutoff,
                            [acc EXCEPT !.filtered = Append(@, item)])

\* mutant: the cutoff is tomorrow
cutoff_date_tomorrow(t, days) == t + 1

\* mutant: the retention window is added
cutoff_date_added(t, days) == t + days

\* datetime.utcnow() - timedelta(days=self.deprecation_days)
cutoff_date(t, days) == t - days

remove_old_deprecated(st, t, days) ==
    LET done == process_items(st.collection.item, 1, cutoff_date(t, days),
                    [filtered |-> <<>>, items |-> st.collection.item,
                     removed |-> <<>>, ok |-> TRUE])
    IN IF ~st.ok THEN st
       ELSE [ok |-> done.ok,
             collection |-> [st.collection EXCEPT
                                !.item = IF done.ok THEN done.filtered ELSE done.items],
             result |-> [st.result EXCEPT !.routes_removed = done.removed]]

route_ids_of(rts) == {unique_id(rts[i]) : i \in 1..Len(rts)}

\* mutant: the folders of all the routes are created, not of the new ones
merge_indexed_all_folders(coll, rts, t, days, existing_requests) ==
         LET route_ids == route_ids_of(rts)
             st0 == [ok |-> TRUE,
                     collection |-> ensure_folders(coll, organize_by_folder(rts, 1, <<>>)),
                     result |-> SyncResult]
             st1 == process_routes(st0, rts, 1, existing_requests, t)
             st2 == mark_deprecated(st1, existing_requests, 1, route_ids, t)
         IN remove_old_deprecated(st2, t, days)

\* merge returns [ok, collection, result]: ok is FALSE when it raises
\* MergerError, and collection is the caller's Document as merge left it
merge_indexed(coll, rts, t, days, existing_requests) ==
         LET route_ids == route_ids_of(rts)
             new_routes == SelectSeq(rts, LAMBDA r : ~InIndex(existing_requests, unique_id(r)))
             new_routes_by_folder == organize_by_folder(new_routes, 1, <<>>)
             st0 == [ok |-> TRUE,
                     collection |-> ensure_folders(coll, new_routes_by_folder),
                     result |-> SyncResult]
             st1 == process_routes(st0, rts, 1, existing_requests, t)
             st2 == mark_deprecated(st1, existing_requests, 1, route_ids, t)
         IN remove_old_deprecated(st2, t, days)

merge(coll, rts, t, days) ==
    IF validate_postman_collection(coll) # "ok"
    THEN [ok |-> FALSE, collection |-> coll, result |-> SyncResult]
    ELSE merge_indexed(coll, rts, t, days, index_requests(coll))

----------------------------------------------------------------------------
(* The routes the extractor hands over *)

Route(method, path, description, schema200, metadata) ==
    [method |-> method, path |-> path, full_path |-> <<"", "api">> \o Tail(path),
     description |-> description, schema200 |-> schema200, metadata |-> metadata]

RHealth ==
    Route("GET", <<"", "health">>, NoDescription, FALSE, Metadata(<<"health">>, FALSE))
\* the same identity as RHealth, everything else different
RHealthDoc ==
    Route("GET", <<"", "health">>, <<Txt("Health probe")>>, TRUE, Metadata(<<"health">>, TRUE))
RDelete ==
    Route("DELETE", <<"", "users", ":id">>, <<Txt("Deletes a user")>>, FALSE,
          Metadata(<<"users">>, TRUE))
RToken ==
    Route("POST", <<"", "auth", "token">>, NoDescription, FALSE, Metadata(<<"auth">>, FALSE))

Routes == {RHealth, RHealthDoc, RDelete, RToken}

RouteLists ==
    { <<>>, <<RHealth>>, <<RDelete>>, <<RToken>>,
      <<RHealth, RHealthDoc>>, <<RToken, RToken>>, <<RDelete, RHealth>> }

----------------------------------------------------------------------------
(* The Documents a run may start from *)

Info == [name |-> "Tracker API"]

Entry(oid, name, method, url, description, event, response) ==
    [name |-> name, oid |-> oid, event |-> event,
     request |-> [method |-> method, url |-> url, description |-> description],
     response |-> response]

Folder(name, items) == [name |-> name, item |-> items]

StrUrl(path) == [str |-> path]

UserTest == [listen |-> "test", exec |-> <<"user test">>]
UserPrerequest == [listen |-> "prerequest", exec |-> <<"user prerequest">>]

EHealth(oid) ==
    Entry(oid, <<"Health">>, "GET", StrUrl(<<"", "api", "health">>),
          <<Txt("Checks service")>>, <<>>, <<>>)
\* user text that ends in white space
EDelete(oid) ==
    Entry(oid, <<"Remove", "User">>, "DELETE", build_url(<<"", "api", "users", ":id">>),
          <<Txt("Removes a user"), Space>>, <<UserTest>>, <<"example">>)
\* the same request with two prerequest hooks the user wrote
EDeleteHooked(oid) ==
    Entry(oid, <<"Remove", "User">>, "DELETE", build_url(<<"", "api", "users", ":id">>),
          <<Txt("Removes a user")>>, <<UserPrerequest, UserTest, UserPrerequest>>,
          <<"example">>)
\* deprecated on day t
EOld(oid, t) ==
    Entry(oid, <<"Old", "Token">>, "POST", build_url(<<"", "api", "auth", "token">>),
          <<DepTok(t), NL2, Txt("Old login")>>, <<UserPrerequest>>, <<>>)
EBadDate(oid) ==
    Entry(oid, <<"Legacy">>, "GET", build_url(<<"", "api", "legacy">>),
          <<DepBad, NL2, Txt("Legacy call")>>, <<>>, <<>>)
ENull(oid) ==
    Entry(oid, <<"Draft">>, "GET", build_url(<<"", "api", "draft">>), NullDesc, <<>>, <<>>)

Doc(items) == [info |-> Info, item |-> items]

WellFormedDocs ==
    { Doc(<<>>),
      Doc(<<EHealth(1)>>),
      Doc(<<Folder(<<"Users">>, <<EDelete(1)>>), EHealth(2)>>),
      Doc(<<EOld(1, 0)>>),
      Doc(<<Folder(<<"Archive">>, <<Folder(<<"Auth">>, <<EOld(1, 0), EDeleteHooked(2)>>)>>)>>),
      Doc(<<Folder(<<"Auth">>, <<EBadDate(1)>>),
            Folder(<<"Health">>, <<Folder(<<"Probes">>, <<EHealth(2)>>), EHealth(3)>>)>>),
      Doc(<<Folder(<<"Users">>, <<EDelete(1)>>), ENull(2)>>) }

MalformedDocs ==
    { [item |-> <<EHealth(1)>>],
      [info |-> Info],
      [info |-> NotADict, item |-> <<EHealth(1)>>],
      [info |-> [description |-> "no name"], item |-> <<EHealth(1)>>],
      [info |-> Info, item |-> NotAList] }

----------------------------------------------------------------------------
(* The state machine: a caller that keeps one Document and merges route    *)
(* lists into it as time passes                                            *)

Init ==
    /\ collection \in WellFormedDocs \cup MalformedDocs
    /\ now = 0
    /\ deprecation_days \in 1..MaxDays
    /\ status = "none"
    /\ result = SyncResult
    /\ routes = <<>>
    /\ merges = 0
    /\ config = [fail_on_error |-> TRUE, auto_stage |-> TRUE, postman_collection_id |-> TRUE]
    /\ file = <<>>
    /\ remote = <<>>
    /\ staged = FALSE
    /\ ops = <<>>
    /\ raised = FALSE

\* collection, result = merger.merge(collection, rts)
Merge(rts) ==
    /\ merges < MaxMerges
    /\ \E out \in {merge(collection, rts, now, deprecation_days)} :
        /\ collection' = out.collection
        /\ status' = IF out.ok THEN "ok" ELSE "error"
        /\ result' = out.result
    /\ routes' = rts
    /\ merges' = merges + 1
    /\ UNCHANGED <<now, deprecation_days, engine_vars>>

\* a day passes between two merges
Tick ==
    /\ now < MaxTime
    /\ merges < MaxMerges
    /\ now' = now + 1
    /\ UNCHANGED <<collection, deprecation_days, status, result, routes, merges, engine_vars>>

Next ==
    \/ \E rts \in RouteLists : Merge(rts)
    \/ Tick

Spec == Init /\ [][Next]_vars

----------------------------------------------------------------------------
(* The state machine of one route: a caller that merges a single route of   *)
(* any shape into an empty Document, and merges it again as time passes     *)

RouteMethods == {"GET", "POST", "PUT", "PATCH", "DELETE", "OPTIONS"}

\* "/users", "/auth/token", "/auth/Token", "/health", "/users/:id", "/",
\* "/users/", "/auth/verify", "/verify", "/v1/api/keys"
RoutePaths ==
    { <<"", "users">>, <<"", "auth", "token">>, <<"", "auth", "Token">>,
      <<"", "health">>, <<"", "users", ":id">>, <<"", "">>, <<"", "users", "">>,
      <<"", "auth", "verify">>, <<"", "verify">>, <<"", "v1", "api", "keys">> }

RouteInputs ==
    {Route(m, p, NoDescription, FALSE, Metadata(<<"auth">>, FALSE)) :
        m \in RouteMethods, p \in RoutePaths}
    \cup {Route(m, p, <<Txt("From JSDoc")>>, TRUE, Metadata(<<"auth">>, TRUE)) :
        m \in RouteMethods, p \in RoutePaths}

InitRoutes ==
    /\ collection = Doc(<<>>)
    /\ now = 0
    /\ deprecation_days \in 1..MaxDays
    /\ status = "none"
    /\ result = SyncResult
    /\ routes = <<>>
    /\ merges = 0
    /\ config = [fail_on_error |-> TRUE, auto_stage |-> TRUE, postman_collection_id |-> TRUE]
    /\ file = <<>>
    /\ remote = <<>>
    /\ staged = FALSE
    /\ ops = <<>>
    /\ raised = FALSE

\* collection, result = merger.merge(collection, [r]), with the r of the
\* merge before
MergeRoute(r) ==
    /\ merges = 0 \/ routes = <<r>>
    /\ Merge(<<r>>)

NextRoutes ==
    \/ \E r \in RouteInputs : MergeRoute(r)
    \/ Tick

SpecRoutes == InitRoutes /\ [][NextRoutes]_vars

----------------------------------------------------------------------------
(* sync/engine.py: SyncEngine.run_sync                                      *)

Errors(msg) == [SyncResult EXCEPT !.errors = <<msg>>]

\* what a run leaves behind: the SyncResult returned (or raised = TRUE), the
\* file, the remote collection, the git index, what it did, and the
\* Document it held in memory
Outcome(raised_, result_, file_, remote_, staged_, ops_, collection_, status_) ==
    [raised |-> raised_, result |-> result_, file |-> file_, remote |-> remote_,
     staged |-> staged_, ops |-> ops_, collection |-> collection_, status |-> status_]

\* the two except clauses: raise SyncError under fail_on_error, else return
\* SyncResult(errors=[error_msg])
sync_failed(cfg, msg, file_, remote_, staged_, ops_, collection_, status_) ==
    Outcome(cfg.fail_on_error, Errors(msg), file_, remote_, staged_, ops_,
            collection_, status_)

\* json.dump(collection, f)
write_collection(coll) == <<coll>>

\* Step 6: auto-stage
stage_step(cfg, res, file_, remote_, ops_, coll, staged_, stage_ok) ==
    IF ~cfg.auto_stage
    THEN Outcome(FALSE, res, file_, remote_, staged_, ops_, coll, "ok")
    ELSE IF stage_ok
    THEN Outcome(FALSE, res, file_, remote_, TRUE, Append(ops_, "stage"), coll, "ok")
    ELSE IF cfg.fail_on_error
    THEN sync_failed(cfg, "Unexpected error during sync", file_, remote_, staged_,
                     Append(ops_, "stage"), coll, "ok")
    ELSE Outcome(FALSE, [res EXCEPT !.errors = Append(@, "Git staging error")],
                 file_, remote_, staged_, Append(ops_, "stage"), coll, "ok")

\* mutant: a failed upload ends the run, whatever fail_on_error is
upload_step_stop(cfg, res, file_, remote_, ops_, coll, staged_, upload_ok, stage_ok) ==
    IF ~cfg.postman_collection_id
    THEN stage_step(cfg, res, file_, remote_, ops_, coll, staged_, stage_ok)
    ELSE IF upload_ok
    THEN stage_step(cfg, res, file_, <<coll>>, Append(ops_, "upload"), coll, staged_,
                    stage_ok)
    ELSE IF cfg.fail_on_error
    THEN sync_failed(cfg, "Unexpected error during sync", file_, remote_, staged_,
                     Append(ops_, "upload"), coll, "ok")
    ELSE Outcome(FALSE, [res EXCEPT !.errors = Append(@, "Postman API error")],
                 file_, remote_, staged_, Append(ops_, "upload"), coll, "ok")

\* Step 5: sync to Postman, then step 6
upload_step(cfg, res, file_, remote_, ops_, coll, staged_, upload_ok, stage_ok) ==
    IF ~cfg.postman_collection_id
    THEN stage_step(cfg, res, file_, remote_, ops_, coll, staged_, stage_ok)
    ELSE IF upload_ok
    THEN stage_step(cfg, res, file_, <<coll>>, Append(ops_, "upload"), coll, staged_,
                    stage_ok)
    ELSE IF cfg.fail_on_error
    THEN sync_failed(cfg, "Unexpected error during sync", file_, remote_, staged_,
                     Append(ops_, "upload"), coll, "ok")
    ELSE stage_step(cfg, [res EXCEPT !.errors = Append(@, "Postman API error")],
                    file_, remote_, Append(ops_, "upload"), coll, staged_, stage_ok)

\* mutant: a failed merge is logged and the run goes on with the Document
after_merge_continue(cfg, out, file_, remote_, staged_, upload_ok, stage_ok) ==
    IF ~has_changes(out.result)
    THEN Outcome(FALSE, out.result, file_, remote_, staged_, <<>>, out.collection, "ok")
    ELSE upload_step(cfg, out.result, write_collection(out.collection), remote_,
                     <<"write">>, out.collection, staged_, upload_ok, stage_ok)

\* mutant: the Document is uploaded and staged first and written last
after_merge_write_last(cfg, out, file_, remote_, staged_, upload_ok, stage_ok) ==
    IF ~out.ok
    THEN sync_failed(cfg, "Sync failed", file_, remote_, staged_, <<>>,
                     out.collection, "error")
    ELSE IF ~has_changes(out.result)
    THEN Outcome(FALSE, out.result, file_, remote_, staged_, <<>>, out.collection, "ok")
    ELSE LET o == upload_step(cfg, out.result, file_, remote_, <<>>, out.collection,
                              staged_, upload_ok, stage_ok)
         IN  [o EXCEPT !.file = write_collection(out.collection),
                       !.ops = Append(@, "write")]

\* Steps 3 to 6, given what merger.merge did
after_merge(cfg, out, file_, remote_, staged_, upload_ok, stage_ok) ==
    IF ~out.ok
    THEN sync_failed(cfg, "Sync failed", file_, remote_, staged_, <<>>,
                     out.collection, "error")
    ELSE IF ~has_changes(out.result)
    THEN Outcome(FALSE, out.result, file_, remote_, staged_, <<>>, out.collection, "ok")
    ELSE upload_step(cfg, out.result, write_collection(out.collection), remote_,
                     <<"write">>, out.collection, staged_, upload_ok, stage_ok)

\* mutant: an empty route list is merged like any other
run_sync_merge_empty(cfg, parsed, file_, remote_, staged_, t, days, upload_ok, stage_ok) ==
    IF ~parsed.ok
    THEN sync_failed(cfg, "Sync failed", file_, remote_, staged_, <<>>, <<>>, "none")
    ELSE IF file_ = <<>>
    THEN sync_failed(cfg, "Unexpected error during sync", file_, remote_, staged_,
                     <<>>, <<>>, "none")
    ELSE after_merge(cfg, merge(file_[1], parsed.routes, t, days), file_, remote_,
                     staged_, upload_ok, stage_ok)

\* parsed is what parser.parse_directory did: [ok, routes]
run_sync(cfg, parsed, file_, remote_, staged_, t, days, upload_ok, stage_ok) ==
    IF ~parsed.ok
    THEN sync_failed(cfg, "Sync failed", file_, remote_, staged_, <<>>, <<>>, "none")
    ELSE IF parsed.routes = <<>>
    THEN Outcome(FALSE, Errors("No routes found"), file_, remote_, staged_, <<>>,
                 <<>>, "none")
    ELSE IF file_ = <<>>
    THEN sync_failed(cfg, "Unexpected error during sync", file_, remote_, staged_,
                     <<>>, <<>>, "none")
    ELSE after_merge(cfg, merge(file_[1], parsed.routes, t, days), file_, remote_,
                     staged_, upload_ok, stage_ok)

----------------------------------------------------------------------------
(* The state machine of the sync runs: the collection file on disk, and     *)
(* runs of the engine as time passes                                       *)

SyncDocs ==
    { Doc(<<>>),
      Doc(<<EHealth(1)>>),
      Doc(<<EOld(1, 0)>>),
      Doc(<<Folder(<<"Users">>, <<EDelete(1)>>), ENull(2)>>),
      [info |-> [description |-> "no name"], item |-> <<EHealth(1)>>] }

ParseResults ==
    { [ok |-> FALSE, routes |-> <<>>],
      [ok |-> TRUE, routes |-> <<>>],
      [ok |-> TRUE, routes |-> <<RHealth>>],
      [ok |-> TRUE, routes |-> <<RDelete, RToken>>] }

InitSync ==
    /\ file \in {<<>>} \cup {<<d>> : d \in SyncDocs}
    /\ config \in [fail_on_error : BOOLEAN, auto_stage : BOOLEAN,
                   postman_collection_id : BOOLEAN]
    /\ now = 0
    /\ deprecation_days \in 1..MaxDays
    /\ collection = <<>>
    /\ status = "none"
    /\ result = SyncResult
    /\ routes = <<>>
    /\ merges = 0
    /\ remote = <<>>
    /\ staged = FALSE
    /\ ops = <<>>
    /\ raised = FALSE

\* result = engine.run_sync()
RunSync(parsed, upload_ok, stage_ok) ==
    /\ merges < MaxRuns
    /\ \E out \in {run_sync(config, parsed, file, remote, staged, now,
                            deprecation_days, upload_ok, stage_ok)} :
        /\ raised' = out.raised
        /\ result' = out.result
        /\ file' = out.file
        /\ remote' = out.remote
        /\ staged' = out.staged
        /\ ops' = out.ops
        /\ collection' = out.collection
        /\ status' = out.status
    /\ routes' = parsed.routes
    /\ merges' = merges + 1
    /\ UNCHANGED <<now, deprecation_days, config>>

\* a day passes before a run
TickSync ==
    /\ now < MaxTime
    /\ merges < MaxRuns
    /\ now' = now + 1
    /\ UNCHANGED <<collection, deprecation_days, status, result, routes, merges,
                   engine_vars>>

NextSync ==
    \/ \E parsed \in ParseResults, upload_ok, stage_ok \in BOOLEAN :
            RunSync(parsed, upload_ok, stage_ok)
    \/ TickSync

SpecSync == InitSync /\ [][NextSync]_vars

----------------------------------------------------------------------------
(* Vocabulary of the properties *)

ItemsOf(doc) ==
    IF "item" \in DOMAIN doc /\ doc.item # NotAList THEN doc.item ELSE <<>>

RECURSIVE AllEntries(_)
AllEntries(items) ==
    IF items = <<>> THEN <<>>
    ELSE (IF "request" \in DOMAIN items[1] THEN <<items[1]>> ELSE <<>>)
         \o (IF "item" \in DOMAIN items[1] THEN AllEntries(items[1].item) ELSE <<>>)
         \o AllEntries(Tail(items))

\* the Entries of a Document, at any depth
Entries(doc) ==
    LET es == AllEntries(ItemsOf(doc)) IN {es[i] : i \in 1..Len(es)}

Present(doc, oid) == \E e \in Entries(doc) : e.oid = oid

EntryOf(doc, oid) == CHOOSE e \in Entries(doc) : e.oid = oid

Description(e) == e.request.description

\* method ":" path of an Entry, read off its fields
Identity(e) ==
    <<e.request.method,
      IF "str" \in DOMAIN e.request.url THEN e.request.url.str
      ELSE IF e.request.url.path = <<>> THEN <<"", "">>
      ELSE <<"">> \o e.request.url.path>>

RouteIdentity(r) == <<r.method, r.full_path>>

Range(seq) == {seq[i] : i \in 1..Len(seq)}

\* the first Entry with its identity in depth-first order: the one the index maps to
Indexed(doc, e) ==
    LET es == AllEntries(ItemsOf(doc))
        first == CHOOSE i \in 1..Len(es) :
                    /\ Identity(es[i]) = Identity(e)
                    /\ \A j \in 1..(i - 1) : Identity(es[j]) # Identity(e)
    IN es[first].oid = e.oid

Markers(desc, kind) == {i \in 1..Len(desc) : desc[i].k = kind}

\* a description with no marker in it that is more than white space
UserText(desc) ==
    /\ desc # NullDesc
    /\ \A i \in 1..Len(desc) : desc[i].k \in {"txt", "ws"}
    /\ \E i \in 1..Len(desc) : desc[i].k = "txt"

\* this step is a call of merge / one that returned
MergeStep == merges' = merges + 1
MergeReturns == MergeStep /\ status' = "ok"

----------------------------------------------------------------------------
(* Properties of merge *)

\* C1: Idempotence: merging the same route list a second time into the
\* result of a merge reports hasChanges == false and leaves the Document
\* unchanged.
C1_Idempotence ==
    [][(MergeReturns /\ status = "ok" /\ routes' = routes)
        => (~has_changes(result') /\ collection' = collection)]_vars

\* C2: Non-destructive update: a matched Entry whose description is user
\* text without a synchronization marker has, after one merge, that text
\* verbatim followed by exactly one synchronization marker, its route being
\* reported in updated only; and an Entry whose description is user text
\* followed by one synchronization marker has, after another merge, the
\* same user text once, followed by one synchronization marker.
C2_NonDestructiveUpdate ==
    [][MergeReturns =>
        \A e \in Entries(collection) :
            (/\ Indexed(collection, e)
             /\ \E i \in 1..Len(routes') : RouteIdentity(routes'[i]) = Identity(e))
            =>
            /\ UserText(Description(e)) =>
                /\ Present(collection', e.oid)
                /\ Description(EntryOf(collection', e.oid))
                      = Description(e) \o <<NL2, SyncTok(now)>>
                /\ \A r \in Range(result'.routes_added) : RouteIdentity(r) # Identity(e)
                /\ Identity(e) \notin Range(result'.routes_deprecated)
                /\ Identity(e) \notin Range(result'.routes_removed)
                /\ \E r \in Range(result'.routes_updated) : RouteIdentity(r) = Identity(e)
            /\ \A t \in 0..now :
                LET text == SubSeq(Description(e), 1, Len(Description(e)) - 2) IN
                (/\ Len(Description(e)) > 2
                 /\ Description(e) = text \o <<NL2, SyncTok(t)>>
                 /\ UserText(text))
                =>
                /\ Present(collection', e.oid)
                /\ Description(EntryOf(collection', e.oid)) = text \o <<NL2, SyncTok(now)>>
      ]_vars

\* the timestamp a deprecation marker records
DepTime(desc) == desc[CHOOSE i \in Markers(desc, "dep") : \A j \in Markers(desc, "dep") : i <= j]

Deprecated(e) == Description(e) # NullDesc /\ Markers(Description(e), "dep") # {}

\* C3: Deprecation monotonicity: a merge whose route list does not contain
\* the identity of an Entry that carries a deprecation marker leaves that
\* Entry's description, and so the recorded timestamp, as it was for as long
\* as the Entry exists, and does not list the Entry in deprecated again.
C3_DeprecationMonotonic ==
    [][MergeReturns =>
        \A e \in Entries(collection) :
            (/\ Deprecated(e)
             /\ \A i \in 1..Len(routes') : RouteIdentity(routes'[i]) # Identity(e))
            =>
            /\ Present(collection', e.oid) =>
                /\ DepTime(Description(EntryOf(collection', e.oid))) = DepTime(Description(e))
                /\ Markers(Description(EntryOf(collection', e.oid)), "dep")
                      = Markers(Description(e), "dep")
            /\ Indexed(collection, e) => Identity(e) \notin Range(result'.routes_deprecated)
      ]_vars

\* a merge returned at a later day than the marker of an Entry it left alone
C3_Witness ==
    /\ status = "ok"
    /\ merges = 2
    /\ \E e \in Entries(collection) :
        /\ Deprecated(e)
        /\ DepTime(Description(e)).s = "iso"
        /\ DepTime(Description(e)).n < now
        /\ \A i \in 1..Len(routes) : RouteIdentity(routes[i]) # Identity(e)

\* C4: Expiry boundary: an Entry whose deprecation marker records day T is
\* present after a merge run on day T + retentionDays - 1, and absent, with
\* its identity in removed, after a merge run on day T + retentionDays + 1,
\* at any depth of the Document.
C4_ExpiryBoundary ==
    [][MergeReturns =>
        \A e \in Entries(collection) :
            (Deprecated(e) /\ DepTime(Description(e)).s = "iso") =>
            LET T == DepTime(Description(e)).n IN
            /\ now = T + deprecation_days - 1 => Present(collection', e.oid)
            /\ now = T + deprecation_days + 1 =>
                /\ ~Present(collection', e.oid)
                /\ Identity(e) \in Range(result'.routes_removed)
      ]_vars

\* the Entry two folders deep, deprecated on day 0, has just been removed
C4_Witness ==
    /\ status = "ok"
    /\ now = deprecation_days + 1
    /\ Len(collection.item) = 1
    /\ collection.item[1].name = <<"Archive">>
    /\ collection.item[1].item[1].name = <<"Auth">>
    /\ \A e \in Entries(collection) : e.oid # 1
    /\ <<"POST", <<"", "api", "auth", "token">>>> \in Range(result.routes_removed)

\* C5: Identity stability: routes with equal method and equal fullPath whose
\* identity the Document already holds are all updates of the one Entry the
\* index maps that identity to, and no Entry is created for that identity.
C5_IdentityStable ==
    [][MergeReturns =>
        \A i, j \in 1..Len(routes') :
            (/\ routes'[i].method = routes'[j].method
             /\ routes'[i].full_path = routes'[j].full_path
             /\ \E e \in Entries(collection) : Identity(e) = RouteIdentity(routes'[i]))
            =>
            /\ routes'[i] \notin Range(result'.routes_added)
            /\ routes'[i] \in Range(result'.routes_updated)
            /\ \A n \in Entries(collection') :
                   Identity(n) = RouteIdentity(routes'[i]) => Present(collection, n.oid)
            /\ \A e \in Entries(collection) :
                   (/\ Identity(e) = RouteIdentity(routes'[i])
                    /\ Indexed(collection, e)
                    /\ Present(collection', e.oid))
                   => LET n == EntryOf(collection', e.oid) IN
                      /\ SyncTok(now) \in Range(Description(n))
                      /\ n.request.url.raw = routes'[j].full_path
                      /\ n.request.method = routes'[j].method
      ]_vars

\* two different routes of one identity updated the Entry that had it
C5_Witness ==
    /\ status = "ok"
    /\ routes = <<RHealth, RHealthDoc>>
    /\ result.routes_updated = routes
    /\ \E e \in Entries(collection) :
        e.oid = 1 /\ e.name = <<"Health">> /\ SyncTok(now) \in Range(Description(e))

\* C6: Entries never disappear except by expiry: an Entry of the Document is
\* still in it after merge unless its description carries a deprecation
\* marker whose timestamp is older than the retention window.
C6_OnlyExpiryDeletes ==
    [][MergeStep =>
        \A e \in Entries(collection) :
            \/ Present(collection', e.oid)
            \/ /\ Deprecated(e)
               /\ DepTime(Description(e)).s = "iso"
               /\ now - DepTime(Description(e)).n > deprecation_days
      ]_vars

\* a merge removed an Entry and kept another one
C6_Witness ==
    /\ status = "ok"
    /\ Len(result.routes_removed) > 0
    /\ Entries(collection) # {}

\* C7: a Document without info, without info.name, or without a list of
\* nodes under item makes merge fail and leaves the Document as it was.
C7_Malformed(doc) ==
    \/ "info" \notin DOMAIN doc
    \/ "name" \notin DOMAIN doc.info
    \/ "item" \notin DOMAIN doc
    \/ doc.item = NotAList

C7_MalformedAborts ==
    [][(MergeStep /\ C7_Malformed(collection))
        => (status' = "error" /\ collection' = collection /\ result' = SyncResult)]_vars

\* merge has just failed on a Document whose info has no name
C7_Witness ==
    /\ status = "error"
    /\ merges > 0
    /\ "info" \in DOMAIN collection
    /\ "name" \notin DOMAIN collection.info
    /\ "item" \in DOMAIN collection
    /\ collection.item # NotAList
    /\ routes # <<>>

----------------------------------------------------------------------------
(* Properties of a sync run *)

\* a Document merge cannot get through: malformed, or an Entry whose
\* description is not a string
C8_MergeFails(doc) ==
    \/ C7_Malformed(doc)
    \/ \E e \in Entries(doc) : Description(e) = NullDesc

\* C8: a sync run whose merge fails writes no file, uploads nothing and
\* stages nothing, whatever fail_on_error is: it raises under fail_on_error
\* and returns the error otherwise.
C8_FailedMergeWritesNothing ==
    [][(/\ merges' = merges + 1
        /\ routes' # <<>>
        /\ file # <<>>
        /\ (status' = "error" \/ C8_MergeFails(file[1])))
       =>
       (/\ status' = "error"
        /\ file' = file
        /\ remote' = remote
        /\ staged' = staged
        /\ ops' = <<>>
        /\ raised' = config.fail_on_error
        /\ result'.errors # <<>>)]_vars

\* a merge failed half way, fail_on_error off: the Document in memory is
\* not the one the file holds
C8_Witness ==
    /\ status = "error"
    /\ ~config.fail_on_error
    /\ ~raised
    /\ file # <<>>
    /\ ~C7_Malformed(file[1])
    /\ collection # file[1]
    /\ ops = <<>>

----------------------------------------------------------------------------
(* Properties of merge, continued *)

\* the Entries the deprecation pass is to mark
C9_ToDeprecate(doc, rts) ==
    {e \in Entries(doc) :
        /\ Indexed(doc, e)
        /\ \A i \in 1..Len(rts) : RouteIdentity(rts[i]) # Identity(e)
        /\ ~Deprecated(e)}

\* C9: Deprecation pass: deprecated lists exactly the identities of the
\* indexed Entries that are not in the route set and carried no deprecation
\* marker, and the description of each becomes a deprecation marker with
\* the current timestamp followed by the previous description, unchanged.
C9_DeprecationPass ==
    [][MergeReturns =>
        /\ Range(result'.routes_deprecated)
              = {Identity(e) : e \in C9_ToDeprecate(collection, routes')}
        /\ Len(result'.routes_deprecated)
              = Cardinality(C9_ToDeprecate(collection, routes'))
        /\ \A e \in C9_ToDeprecate(collection, routes') :
            /\ Present(collection', e.oid)
            /\ Description(EntryOf(collection', e.oid))
                  = <<DepTok(now), NL2>> \o Description(e)
      ]_vars

\* an Entry with user text has just been marked
C9_Witness ==
    /\ status = "ok"
    /\ Len(result.routes_deprecated) > 0
    /\ \E e \in Entries(collection) :
        /\ Identity(e) \in Range(result.routes_deprecated)
        /\ Len(Description(e)) > 2
        /\ Description(e)[1] = DepTok(now)
        /\ Description(e)[3].k = "txt"

\* C10: every Entry merge inserts has the description of its route (or the
\* default "<METHOD> <path>" line) followed by a synchronization marker, the
\* generated test hook, and the prerequest auth hook iff the route is
\* protected.
C10_InsertedEntry ==
    [][MergeReturns =>
        \A n \in Entries(collection') :
            ~Present(collection, n.oid) =>
            \E r \in Range(result'.routes_added) :
                /\ RouteIdentity(r) = Identity(n)
                /\ Description(n)
                      = (IF r.description # NoDescription THEN r.description
                         ELSE DefaultLine(r)) \o <<NL2, SyncTok(now)>>
                /\ \E i \in 1..Len(n.event) :
                        n.event[i] = [listen |-> "test", exec |-> generate_test_script(r)]
                /\ is_protected(r) <=>
                        \E i \in 1..Len(n.event) :
                            n.event[i] = [listen |-> "prerequest",
                                          exec |-> generate_prerequest_auth_script]
      ]_vars

----------------------------------------------------------------------------
(* Properties of merge: insertions, hooks, Groups *)

\* the top-level Groups of a Document
Groups(doc) == SelectSeq(ItemsOf(doc), LAMBDA it : "item" \in DOMAIN it)

\* the hooks of an Entry that listen to a trigger
Hooks(e, trigger) ==
    IF "event" \in DOMAIN e THEN SelectSeq(e.event, LAMBDA h : h.listen = trigger)
    ELSE <<>>

\* C11: merging the single unprotected route POST /api/auth/token of auth.ts
\* into an empty Document creates exactly one Group named "Auth" holding
\* exactly one Entry named "Generate Token", whose test hook has the
\* token-presence assertion and the variable-save step; added has length 1.
C11_GenerateToken ==
    [][(/\ MergeStep
        /\ collection = [info |-> Info, item |-> <<>>]
        /\ routes' = <<Route("POST", <<"", "auth", "token">>, NoDescription, FALSE,
                              Metadata(<<"auth">>, FALSE))>>)
       =>
       (/\ status' = "ok"
        /\ Len(collection'.item) = 1
        /\ Len(Groups(collection')) = 1
        /\ collection'.item[1].name = <<"Auth">>
        /\ Len(collection'.item[1].item) = 1
        /\ "request" \in DOMAIN collection'.item[1].item[1]
        /\ collection'.item[1].item[1].name = <<"Generate", "Token">>
        /\ Len(Hooks(collection'.item[1].item[1], "test")) = 1
        /\ {"Response contains token", "Save token to collection variable"}
              \subseteq Range(Hooks(collection'.item[1].item[1], "test")[1].exec)
        /\ Len(result'.routes_added) = 1)]_vars

\* some route of the list is protected and has the identity of the Entry
C12_ProtectedMatch(rts, e) ==
    \E i \in 1..Len(rts) :
        /\ RouteIdentity(rts[i]) = Identity(e)
        /\ rts[i].metadata # NoMetadata
        /\ rts[i].metadata[1].is_protected

\* C12: merge appends the auth-injection prerequest hook to an Entry only
\* if a protected route matches it and it has no prerequest hook at all
\* (and then it does); prerequest hooks already there are never modified or
\* replaced; the number of prerequest hooks of an Entry never exceeds
\* max(1, the number it had), and an inserted Entry has at most one.
C12_PrerequestHook ==
    [][MergeStep =>
        /\ \A e \in Entries(collection) :
            Present(collection', e.oid) =>
            LET before == Hooks(e, "prerequest")
                after == Hooks(EntryOf(collection', e.oid), "prerequest")
            IN /\ Len(before) <= Len(after)
               /\ SubSeq(after, 1, Len(before)) = before
               /\ Len(after) <= (IF Len(before) > 1 THEN Len(before) ELSE 1)
               /\ after # before =>
                    /\ before = <<>>
                    /\ after = <<[listen |-> "prerequest",
                                  exec |-> generate_prerequest_auth_script]>>
                    /\ Indexed(collection, e)
                    /\ C12_ProtectedMatch(routes', e)
               /\ (/\ status' = "ok"
                   /\ before = <<>>
                   /\ Indexed(collection, e)
                   /\ C12_ProtectedMatch(routes', e)) => Len(after) = 1
        /\ \A n \in Entries(collection') :
            ~Present(collection, n.oid) => Len(Hooks(n, "prerequest")) <= 1
      ]_vars

\* a protected route has just updated an Entry that keeps the two hooks
\* its user wrote, and another merge gave an Entry the generated hook
C12_Witness ==
    /\ status = "ok"
    /\ \E e \in Entries(collection) :
        /\ C12_ProtectedMatch(routes, e)
        /\ Markers(Description(e), "sync") # {}
        /\ Hooks(e, "prerequest") = <<UserPrerequest, UserPrerequest>>
        /\ \E i \in 1..Len(result.routes_updated) :
              RouteIdentity(result.routes_updated[i]) = Identity(e)

----------------------------------------------------------------------------
(* Properties of merge: timestamps that cannot be parsed *)

\* the description carries a deprecation marker whose timestamp is no date
C13_BadTimestamp(e) ==
    /\ Description(e) # NullDesc
    /\ Markers(Description(e), "dep") # {}
    /\ DepTime(Description(e)).s # "iso"

\* C13: an Entry whose deprecation marker has an unparsable timestamp is
\* left as it is by the expiry pass, neither deleted nor listed in removed,
\* and the merge of its well-formed Document completes.
C13_BadTimestampKept ==
    [][(/\ MergeStep
        /\ ~C7_Malformed(collection)
        /\ \A e \in Entries(collection) : Description(e) # NullDesc
        /\ \E e \in Entries(collection) : C13_BadTimestamp(e))
       =>
       (/\ status' = "ok"
        /\ \A e \in Entries(collection) :
            C13_BadTimestamp(e) =>
                /\ Present(collection', e.oid)
                /\ (\A i \in 1..Len(routes') : RouteIdentity(routes'[i]) # Identity(e))
                      => EntryOf(collection', e.oid) = e
                /\ (\A o \in Entries(collection) : Identity(o) = Identity(e) => o.oid = e.oid)
                      => Identity(e) \notin Range(result'.routes_removed))]_vars

\* a merge returned, later than the retention window after day 0, and the
\* Entry with the unparsable timestamp is there
C13_Witness ==
    /\ status = "ok"
    /\ merges > 0
    /\ now > deprecation_days
    /\ \E e \in Entries(collection) : C13_BadTimestamp(e)

----------------------------------------------------------------------------
(* Properties of merge: duplicate routes *)

\* C14: when the route list has several routes of one identity and no
\* Entry of the Document has that identity, merge leaves exactly one Entry
\* with it: the first route inserts it and the later ones update it.
C14_DuplicateNewRoutes ==
    [][MergeReturns =>
        \A i, j \in 1..Len(routes') :
            (/\ i < j
             /\ RouteIdentity(routes'[i]) = RouteIdentity(routes'[j])
             /\ \A e \in Entries(collection) : Identity(e) # RouteIdentity(routes'[i]))
            =>
            Cardinality({n \in Entries(collection') :
                            Identity(n) = RouteIdentity(routes'[i])}) = 1
      ]_vars

----------------------------------------------------------------------------
(* Properties of merge: Groups *)

\* the Entries under the items, each with the names of the Groups above it
RECURSIVE ParentsOf(_, _)
ParentsOf(items, path) ==
    IF items = <<>> THEN {}
    ELSE (IF "request" \in DOMAIN items[1]
          THEN {[oid |-> items[1].oid, path |-> path]} ELSE {})
         \cup (IF "item" \in DOMAIN items[1]
               THEN ParentsOf(items[1].item, Append(path, items[1].name)) ELSE {})
         \cup ParentsOf(Tail(items), path)

\* no Entry of the Document has the identity of the route
C15_IsNew(doc, r) == \A e \in Entries(doc) : Identity(e) # RouteIdentity(r)

\* C15: merge creates a Group only for a route it inserts whose group name
\* no top-level Group has; when every route is indexed no Group is
\* created; and an Entry that was there stays under the parent it had, even
\* when the group of its route is another one.
C15_GroupsOnlyForInsertions ==
    [][MergeReturns =>
        LET old == Groups(collection)
            new == Groups(collection')
        IN /\ Len(new) >= Len(old)
           /\ \A k \in (Len(old) + 1)..Len(new) :
                /\ \A g \in 1..Len(old) : old[g].name # new[k].name
                /\ \E i \in 1..Len(routes') :
                    /\ C15_IsNew(collection, routes'[i])
                    /\ folder_name(routes'[i]) = new[k].name
                    /\ \E n \in Range(new[k].item) :
                        /\ "request" \in DOMAIN n
                        /\ ~Present(collection, n.oid)
                        /\ Identity(n) = RouteIdentity(routes'[i])
           /\ (\A i \in 1..Len(routes') : ~C15_IsNew(collection, routes'[i]))
                => Len(new) = Len(old)
           /\ \A p \in ParentsOf(ItemsOf(collection), <<>>) :
                Present(collection', p.oid) => p \in ParentsOf(ItemsOf(collection'), <<>>)
      ]_vars

\* a route has just updated an Entry that is not under the Group of the
\* route, and the Document has no such Group
C15_Witness ==
    /\ status = "ok"
    /\ \E i \in 1..Len(result.routes_updated) :
        LET r == result.routes_updated[i] IN
        /\ \A g \in 1..Len(Groups(collection)) : Groups(collection)[g].name # folder_name(r)
        /\ \E p \in ParentsOf(ItemsOf(collection), <<>>) :
            /\ Identity(EntryOf(collection, p.oid)) = RouteIdentity(r)
            /\ Markers(Description(EntryOf(collection, p.oid)), "sync") # {}
            /\ p.path = <<<<"Archive">>, <<"Auth">>>>

\* the names of the top-level Groups are pairwise distinct
C16_UniqueNames(doc) ==
    \A g, h \in 1..Len(Groups(doc)) :
        Groups(doc)[g].name = Groups(doc)[h].name => g = h

\* C16: the names of the top-level Groups, pairwise distinct before a
\* merge, are pairwise distinct after it; every Group that was there keeps
\* its name and its place among the Groups, and the Entries it still has
\* are Entries it had or Entries merge inserted.
C16_GroupNamesUnique ==
    [][C16_UniqueNames(collection) =>
        LET old == Groups(collection)
            new == Groups(collection')
        IN /\ C16_UniqueNames(collection')
           /\ Len(new) >= Len(old)
           /\ \A g \in 1..Len(old) :
                /\ new[g].name = old[g].name
                /\ \A n \in Entries([item |-> new[g].item]) :
                    Present(collection, n.oid) =>
                        Present([item |-> old[g].item], n.oid)
      ]_vars

\* merge has inserted an Entry in a Group that was there and has an Entry
\* of its own
C16_Witness ==
    /\ status = "ok"
    /\ Len(result.routes_added) > 0
    /\ \E g \in 1..Len(Groups(collection)) :
        /\ Groups(collection)[g].name = <<"Auth">>
        /\ \E e, n \in Range(Groups(collection)[g].item) :
            /\ "request" \in DOMAIN e /\ "request" \in DOMAIN n
            /\ e.name = <<"Legacy">>
            /\ Identity(n) = RouteIdentity(result.routes_added[1])

----------------------------------------------------------------------------
(* Properties of merge: markers *)

\* C17: Marker invariant: the Documents merge starts from have at most one
\* synchronization marker and at most one deprecation marker in every
\* Entry description, and so has the Document after any sequence of merges.
C17_MarkerInvariant ==
    \A e \in Entries(collection) :
        Description(e) # NullDesc =>
            /\ Cardinality(Markers(Description(e), "sync")) <= 1
            /\ Cardinality(Markers(Description(e), "dep")) <= 1

\* two merges later an Entry carries one marker of each kind
C17_Witness ==
    /\ merges = 2
    /\ status = "ok"
    /\ \E e \in Entries(collection) :
        /\ Description(e) # NullDesc
        /\ Cardinality(Markers(Description(e), "sync")) = 1
        /\ Cardinality(Markers(Description(e), "dep")) = 1
        /\ \E i \in Markers(Description(e), "sync") : Description(e)[i].n = now

----------------------------------------------------------------------------
(* Properties of the Indexer *)

\* C18: the index of a well-formed Document has a key for every Entry at
\* any depth, the key being the method and the path of the Entry (a string
\* url as it is, a structured url as "/" and its segments joined by "/");
\* no key is there twice, and a key that several Entries have maps to the
\* first of them in depth-first order. (index_requests reads the Document
\* and yields the index alone: the Document is not among its results.)
C18_Indexer ==
    ~C7_Malformed(collection) =>
        LET index == index_requests(collection) IN
        /\ {index[j].id : j \in 1..Len(index)} = {Identity(e) : e \in Entries(collection)}
        /\ \A j, k \in 1..Len(index) : index[j].id = index[k].id => j = k
        /\ \A j \in 1..Len(index) :
            LET item == GetAt(collection.item, index[j].ref) IN
            /\ "request" \in DOMAIN item
            /\ Identity(item) = index[j].id
            /\ Indexed(collection, item)

\* a merge has updated the first of two Entries with one identity, which
\* lies deeper in the Document than the second
C18_Witness ==
    /\ status = "ok"
    /\ \E p, q \in ParentsOf(ItemsOf(collection), <<>>) :
        LET e == EntryOf(collection, p.oid)
            o == EntryOf(collection, q.oid)
        IN /\ p.oid # q.oid
           /\ Identity(e) = Identity(o)
           /\ Len(p.path) = 2
           /\ Len(q.path) = 1
           /\ Indexed(collection, e)
           /\ Markers(Description(e), "sync") # {}
           /\ Markers(Description(o), "sync") = {}

----------------------------------------------------------------------------
(* Properties of a sync run, continued *)

\* this step is a run of run_sync
RunStep == merges' = merges + 1

\* C19: Failure policy: a run that reports a problem (no routes found, a
\* parse, merge, upload or staging failure) raises it to the caller when
\* fail_on_error is enabled; when it is disabled the run never raises and
\* returns the problem in the errors of its result.
C19_FailurePolicy ==
    [][RunStep =>
        /\ raised' => config.fail_on_error
        /\ result'.errors # <<>> => raised' = config.fail_on_error
      ]_vars

----------------------------------------------------------------------------
(* Properties of merge: what an update leaves alone *)

\* C20: an Entry that is still there after a merge has the name, the
\* responses and every other field it had; of its request only url, method
\* and description may differ; the hooks it had are there, unchanged and in
\* their order, followed by at most one more hook, a prerequest one.
C20_UpdateFrame ==
    [][MergeStep =>
        \A e \in Entries(collection) :
            Present(collection', e.oid) =>
            LET u == EntryOf(collection', e.oid) IN
            /\ DOMAIN u = DOMAIN e
            /\ \A f \in DOMAIN e \ {"request", "event"} : u[f] = e[f]
            /\ DOMAIN u.request = DOMAIN e.request
            /\ \A f \in DOMAIN e.request \ {"url", "method", "description"} :
                    u.request[f] = e.request[f]
            /\ Len(u.event) <= Len(e.event) + 1
            /\ SubSeq(u.event, 1, Len(e.event)) = e.event
            /\ Len(u.event) > Len(e.event) => u.event[Len(u.event)].listen = "prerequest"
      ]_vars

\* a route has just updated an Entry with a name, a test script and an
\* example of its user: url rewritten, description stamped, hook appended
C20_Witness ==
    /\ status = "ok"
    /\ \E e \in Entries(collection) :
        /\ \E i \in 1..Len(result.routes_updated) :
              RouteIdentity(result.routes_updated[i]) = Identity(e)
        /\ e.name = <<"Remove", "User">>
        /\ e.response = <<"example">>
        /\ e.event = <<UserTest, [listen |-> "prerequest",
                                  exec |-> generate_prerequest_auth_script]>>
        /\ Markers(Description(e), "sync") # {}

----------------------------------------------------------------------------
(* Properties of the naming policy *)

\* the verb of a method, given the number of segments that remain
C21_Verb(method, n) ==
    CASE method = "GET" -> "Get"
      [] method = "POST" -> IF n = 1 THEN "Create" ELSE "Generate"
      [] method \in {"PUT", "PATCH"} -> "Update"
      [] method = "DELETE" -> "Delete"
      [] OTHER -> method

\* the path without its leading empty and api segments
RECURSIVE C21_DropLeading(_)
C21_DropLeading(path) ==
    IF path # <<>> /\ Head(path) \in {"", "api"} THEN C21_DropLeading(Tail(path))
    ELSE path

\* the name as the statement has it: leading segments stripped, then
\* "<METHOD> Root", "Health Check", or verb and title-cased words
C21_NameAsStated(r) ==
    LET segs == C21_DropLeading(r.full_path)
        words == [i \in 1..Len(segs) |-> Capitalize(segs[i])]
    IN IF segs = <<>> THEN <<r.method, "Root">>
       ELSE IF "Health" \in Range(words) THEN <<"Health", "Check">>
       ELSE <<C21_Verb(r.method, Len(segs))>> \o words

\* the name with every empty and every api segment dropped, and with the
\* names that contain "verify" set apart
C21_NameAmended(r) ==
    LET segs == SelectSeq(r.full_path, LAMBDA p : p \notin {"", "api"})
        words == [i \in 1..Len(segs) |-> Capitalize(segs[i])]
        first == CHOOSE i \in 1..Len(words) : words[i] # "Verify"
        last == CHOOSE i \in 1..Len(words) :
                    words[i] # "Verify" /\ \A j \in (i + 1)..Len(words) : words[j] = "Verify"
        lead == CHOOSE i \in 1..Len(words) :
                    words[i] # "Verify" /\ \A j \in 1..(i - 1) : words[j] = "Verify"
    IN IF segs = <<>> THEN <<r.method, "Root">>
       ELSE IF "Health" \in Range(words) THEN <<"Health", "Check">>
       ELSE IF "Verify" \notin Range(words) THEN <<C21_Verb(r.method, Len(segs))>> \o words
       ELSE IF Range(words) = {"Verify"} THEN <<"Verify", "">>
       ELSE <<"Verify">> \o [i \in 1..(last - lead + 1) |->
                                IF words[lead + i - 1] = "Verify" THEN ""
                                ELSE words[lead + i - 1]]

\* the Entries a step has inserted
Inserted == {n \in Entries(collection') : ~Present(collection, n.oid)}

----------------------------------------------------------------------------
(* Properties of the generated test script *)

\* the path has the word in it, in upper or lower case
C22_PathHas(r, word) ==
    \E i \in 1..Len(r.path) :
        \/ r.path[i] = word
        \/ word = "token" /\ r.path[i] = "Token"

\* the lines of the test hook of an Entry
C22_Script(n) == Hooks(n, "test")[1].exec

\* C22: the generated test script begins with the status-200 assertion; it
\* has the object-shape assertion iff the route declares a response schema
\* for status 200; for POST the token-presence assertion and the
\* save-to-variable step iff the path contains "token" in any case, and the
\* generic 200/201 assertion otherwise; for GET the status == "ok"
\* assertion iff the path contains "health"; nothing else, and nothing
\* twice.
C22_TestScript ==
    [][MergeReturns =>
        \A n \in Inserted :
            LET r == routes'[1]
                script == C22_Script(n)
                has(line) == line \in Range(script)
            IN /\ Len(Hooks(n, "test")) = 1
               /\ script[1] = "Status code is 200"
               /\ has("Response has correct structure") <=> r.schema200
               /\ has("Response contains token")
                    <=> (r.method = "POST" /\ C22_PathHas(r, "token"))
               /\ has("Save token to collection variable")
                    <=> (r.method = "POST" /\ C22_PathHas(r, "token"))
               /\ has("Resource created successfully")
                    <=> (r.method = "POST" /\ ~C22_PathHas(r, "token"))
               /\ has("Service is healthy")
                    <=> (r.method = "GET" /\ C22_PathHas(r, "health"))
               /\ Range(script) \subseteq
                    {"Status code is 200", "Response has correct structure",
                     "Response contains token", "Save token to collection variable",
                     "Resource created successfully", "Service is healthy"}
               /\ Cardinality(Range(script)) = Len(script)
      ]_vars

\* the Entry of POST /api/auth/Token, with a schema for 200, was inserted
C22_Witness ==
    /\ status = "ok"
    /\ merges = 1
    /\ routes[1].method = "POST"
    /\ routes[1].path = <<"", "auth", "Token">>
    /\ routes[1].schema200
    /\ \E e \in Entries(collection) :
        C22_Script(e) = <<"Status code is 200", "Response has correct structure",
                          "Response contains token", "Save token to collection variable">>

----------------------------------------------------------------------------
(* Properties of the ChangeSet *)

\* C23: hasChanges is true iff one of the added, updated, deprecated and
\* removed lists is not empty, whatever the errors list holds.
C23_HasChanges ==
    has_changes(result) <=>
        \/ result.routes_added # <<>>
        \/ result.routes_updated # <<>>
        \/ result.routes_deprecated # <<>>
        \/ result.routes_removed # <<>>

\* a run has returned a result with changes and with an error in it
C23_Witness ==
    /\ merges > 0
    /\ ~raised
    /\ result.errors # <<>>
    /\ result.routes_added # <<>>
    /\ result.routes_deprecated # <<>>

----------------------------------------------------------------------------
(* Properties of merge: a route that comes back *)

\* C24: an Entry whose identity is in the route list is not deleted by
\* merge and its identity is not listed in removed, however old the
\* deprecation timestamp it carries.
C24_PresentRouteKept ==
    [][MergeReturns =>
        \A e \in Entries(collection) :
            (/\ Indexed(collection, e)
             /\ \E i \in 1..Len(routes') : RouteIdentity(routes'[i]) = Identity(e))
            =>
            /\ Present(collection', e.oid)
            /\ Identity(e) \notin Range(result'.routes_removed)
      ]_vars

----------------------------------------------------------------------------
(* Properties of merge: identity round trip *)

\* The paths whose split has no empty segment after the leading one.
C25_PlainPath(r) == \A i \in 2..Len(r.full_path) : r.full_path[i] # ""

\* The repeated merge of the same single route r.
C25_Repeated(r) == merges = 1 /\ routes = <<r>> /\ routes' = <<r>> /\ MergeReturns

\* C25: after merge(D, R) every route of R has an indexed Entry with its
\* identity, so a repeated merge with the same R adds no route, creates no
\* Entry and deprecates no Entry.
C25_IdentityRoundTrip ==
    [][\A r \in RouteInputs :
        /\ (MergeReturns /\ routes' = <<r>>) =>
              \E e \in Entries(collection') :
                  Indexed(collection', e) /\ Identity(e) = RouteIdentity(r)
        /\ C25_Repeated(r) =>
              /\ result'.routes_added = <<>>
              /\ Inserted = {}
              /\ result'.routes_deprecated = <<>>
      ]_vars

\* The same statement restricted to paths without a trailing slash.
C25_PlainPathsRoundTrip ==
    [][\A r \in RouteInputs :
        C25_PlainPath(r) =>
        /\ (MergeReturns /\ routes' = <<r>>) =>
              \E e \in Entries(collection') :
                  Indexed(collection', e) /\ Identity(e) = RouteIdentity(r)
        /\ C25_Repeated(r) =>
              /\ result'.routes_added = <<>>
              /\ Inserted = {}
              /\ result'.routes_deprecated = <<>>
      ]_vars

----------------------------------------------------------------------------
(* Properties of a sync run: ordering of write, upload and stage *)

\* the orders of operations a run may show
C26_Orders ==
    { <<>>, <<"write">>, <<"write", "upload">>, <<"write", "stage">>,
      <<"write", "upload", "stage">> }

\* a merge outcome without changes for Document doc
C26_Unchanged(doc) == [ok |-> TRUE, collection |-> doc, result |-> SyncResult]

\* C26: upload and staging happen only after the merged Document has been
\* written to the local file, in the order write, upload, stage; a merge
\* that reports no changes is followed by none of the three.  (The run that
\* returns an empty ChangeSet without error is the one whose merge reported
\* no changes.)
C26_WriteUploadStage ==
    [][RunStep =>
        /\ ops' \in C26_Orders
        /\ ops' # <<>> => file' = <<collection'>>
        /\ "upload" \in Range(ops') => remote' \in {remote, file'}
        /\ remote' # remote => "upload" \in Range(ops')
        /\ staged' # staged => "stage" \in Range(ops')
        /\ file' # file => "write" \in Range(ops')
        /\ (status' = "ok" /\ ~raised' /\ result' = SyncResult)
           => (ops' = <<>> /\ UNCHANGED <<file, remote, staged>>)
        /\ \A upload_ok, stage_ok \in BOOLEAN, d \in Range(file) :
            LET o == after_merge(config, C26_Unchanged(d), file, remote, staged,
                                 upload_ok, stage_ok)
            IN  /\ o.ops = <<>>
                /\ o.file = file /\ o.remote = remote /\ o.staged = staged
                /\ ~o.raised /\ o.result = SyncResult
      ]_vars

\* a run that wrote, uploaded and staged the merged Document
C26_Witness ==
    /\ ops = <<"write", "upload", "stage">>
    /\ file = <<collection>>
    /\ remote = file
    /\ staged
    /\ ~raised

----------------------------------------------------------------------------
(* Properties of a sync run: no routes *)

\* what the extractor returns when it finds no route
C27_NoRoutes == [ok |-> TRUE, routes |-> <<>>]

----------------------------------------------------------------------------
(* Properties of a sync run: failed upload *)

\* a run over the routes just parsed whose upload is attempted and fails
C28_UploadFails(stage_ok) ==
    /\ routes' # <<>>
    /\ "upload" \in Range(ops')
    /\ remote' = remote
    /\ RunSync([ok |-> TRUE, routes |-> routes'], FALSE, stage_ok)

\* C28: when the upload fails after a merge with changes the local file
\* already holds the merged Document and keeps it; without fail_on_error the
\* error is appended to the result and staging goes ahead as configured,
\* with fail_on_error the run raises and staging is not attempted.
C28_UploadFailure ==
    [][\A stage_ok \in BOOLEAN :
        C28_UploadFails(stage_ok) =>
            /\ ops'[1] = "write"
            /\ file' = <<collection'>>
            /\ remote' = remote
            /\ ~config.fail_on_error =>
                /\ ~raised'
                /\ "Postman API error" \in Range(result'.errors)
                /\ result'.routes_added \o result'.routes_updated # <<>>
                /\ "stage" \in Range(ops') <=> config.auto_stage
                /\ staged' = (staged \/ (config.auto_stage /\ stage_ok))
            /\ config.fail_on_error =>
                /\ raised'
                /\ "stage" \notin Range(ops')
                /\ staged' = staged
      ]_vars

\* a failed upload, not fatal, followed by staging of the written file
C28_Witness ==
    /\ ops = <<"write", "upload", "stage">>
    /\ ~config.fail_on_error
    /\ ~raised
    /\ "Postman API error" \in Range(result.errors)
    /\ remote = <<>>
    /\ file = <<collection>>
    /\ staged

----------------------------------------------------------------------------
(* Properties of merge: deprecation and expiry in one merge *)

\* the Entries the merge deleted
C29_Deleted == {e \in Entries(collection) : ~Present(collection', e.oid)}

\* no two Entries of the Document share an identity
C29_UniqueIdentities(doc) ==
    \A e, f \in Entries(doc) : Identity(e) = Identity(f) => e.oid = f.oid

\* C29: with a retention of at least one day, an Entry that a merge marks
\* deprecated is not deleted by the expiry pass of that merge: it is in
\* the result with the marker of that day, the Entries marked and the
\* Entries deleted are disjoint, and so are the identities in deprecated
\* and removed when identities name one Entry each.
C29_DeprecatedNotRemoved ==
    [][(MergeReturns /\ deprecation_days >= 1) =>
        /\ \A e \in C9_ToDeprecate(collection, routes') :
            /\ Identity(e) \in Range(result'.routes_deprecated)
            /\ Present(collection', e.oid)
            /\ Deprecated(EntryOf(collection', e.oid))
            /\ DepTime(Description(EntryOf(collection', e.oid))).n = now
        /\ C9_ToDeprecate(collection, routes') \cap C29_Deleted = {}
        /\ C29_UniqueIdentities(collection) =>
             Range(result'.routes_deprecated) \cap Range(result'.routes_removed) = {}
      ]_vars

\* a ChangeSet that both deprecates and removes
C29_Witness ==
    /\ status = "ok"
    /\ merges > 0
    /\ result.routes_deprecated # <<>>
    /\ result.routes_removed # <<>>
    /\ \E e \in Entries(collection) :
        /\ Deprecated(e)
        /\ DepTime(Description(e)).n = now
        /\ Identity(e) \in Range(result.routes_deprecated)

----------------------------------------------------------------------------
(* Properties of merge: order of the nodes *)

C30_IsGroup(n) == "item" \in DOMAIN n

\* the nodes of a level that are still there after the merge: merge deletes
\* Entries only
C30_Surviving(level, after) ==
    SelectSeq(level, LAMBDA n : C30_IsGroup(n) \/ Present(after, n.oid))

\* the Entries of a level that merge inserted
C30_NewEntries(level, before) ==
    SelectSeq(level, LAMBDA n : ~C30_IsGroup(n) /\ ~Present(before, n.oid))

\* level b of the input against level a of the result: the surviving nodes
\* of b are the first nodes of a, in their order and so on below them, and
\* whatever follows them is new: inserted Entries, and at the top level
\* Groups made of inserted Entries
RECURSIVE C30_SameOrder(_, _, _, _, _)
C30_SameOrder(b, a, before, after, top) ==
    LET sb == C30_Surviving(b, after)
    IN  /\ Len(a) >= Len(sb)
        /\ \A i \in 1..Len(sb) :
            IF C30_IsGroup(sb[i])
            THEN /\ C30_IsGroup(a[i])
                 /\ a[i].name = sb[i].name
                 /\ C30_SameOrder(sb[i].item, a[i].item, before, after, FALSE)
            ELSE /\ ~C30_IsGroup(a[i])
                 /\ a[i].oid = sb[i].oid
        /\ \A i \in (Len(sb) + 1)..Len(a) :
            IF C30_IsGroup(a[i])
            THEN /\ top
                 /\ C30_NewEntries(a[i].item, before) = a[i].item
            ELSE ~Present(before, a[i].oid)

\* Entry e is what merge inserts for route r
C30_Of(e, r) ==
    /\ Identity(e) = RouteIdentity(r)
    /\ (Hooks(e, "prerequest") # <<>>) <=> (r.metadata # NoMetadata /\ r.metadata[1].is_protected)

\* the inserted Entries es follow the order of the route list rts
C30_InRouteOrder(es, rts) ==
    \E f \in [1..Len(es) -> 1..Len(rts)] :
        /\ \A i, j \in 1..Len(es) : i < j => f[i] < f[j]
        /\ \A i \in 1..Len(es) : C30_Of(es[i], rts[f[i]])

\* C30: merge never reorders existing nodes: the surviving Groups and
\* Entries keep their relative order at every level, new Groups come after
\* all existing top-level nodes, and inserted Entries come after the
\* existing children of their Group, in route-list order.
C30_OrderKept ==
    [][MergeReturns =>
        /\ C30_SameOrder(ItemsOf(collection), ItemsOf(collection'),
                         collection, collection', TRUE)
        /\ \A g \in 1..Len(Groups(collection')) :
            C30_InRouteOrder(C30_NewEntries(Groups(collection')[g].item, collection),
                             routes')
      ]_vars

\* a new Group with two inserted Entries after an older top-level node
C30_Witness ==
    /\ status = "ok"
    /\ merges = 1
    /\ Len(result.routes_added) = 2
    /\ result.routes_added[1] # result.routes_added[2]
    /\ Len(ItemsOf(collection)) = 2
    /\ ~C30_IsGroup(collection.item[1])
    /\ C30_IsGroup(collection.item[2])
    /\ Len(collection.item[2].item) = 2
    /\ C30_Of(collection.item[2].item[1], result.routes_added[1])
    /\ C30_Of(collection.item[2].item[2], result.routes_added[2])
    /\ ~C30_Of(collection.item[2].item[1], result.routes_added[2])

====
